---- MODULE Spec2Model ----
(***************************************************************************)
(* PowerControl: a logical ON/OFF output over one GPIO pin, driven through *)
(* the IGpioHAL interface.  The repository holds two revisions of          *)
(* power_control.cpp (src/src/power_control.cpp and src/unnamed/part_000); *)
(* they differ in deinit() and set_drive_capability().  Both are modelled; *)
(* the variable `revision` says which one an instance is built from.       *)
(*                                                                         *)
(* Every public method is a pure operator over the object record `self`    *)
(* and the results the HAL returns to it; it yields the new object, the    *)
(* returned esp_err_t and the HAL calls it issued, in order.               *)
(***************************************************************************)
EXTENDS Integers, Sequences, FiniteSets, TLC

\* ------------------------------------------------------------------------
\* esp_err_t values the HAL (or the component) can return
ESP_OK == "ESP_OK"
ESP_FAIL == "ESP_FAIL"
ESP_ERR_NO_MEM == "ESP_ERR_NO_MEM"
ESP_ERR_INVALID_ARG == "ESP_ERR_INVALID_ARG"
ESP_ERR_INVALID_STATE == "ESP_ERR_INVALID_STATE"

HalResults == {ESP_OK, ESP_FAIL, ESP_ERR_NO_MEM, ESP_ERR_INVALID_ARG, ESP_ERR_INVALID_STATE}

\* gpio_drive_cap_t
GPIO_DRIVE_CAP_0 == 0
GPIO_DRIVE_CAP_3 == 3
DriveCaps == GPIO_DRIVE_CAP_0 .. GPIO_DRIVE_CAP_3

\* Largest gpio_num_t an instance is constructed on
MaxPin == 4
Pins == 0 .. MaxPin

\* The pin of the second instance: another pin than the first one's
OtherPin(gpio) == (gpio + 1) % (MaxPin + 1)

\* The two revisions of power_control.cpp in the repository
Revisions == {"src", "part_000"}

VARIABLES
    revision,   \* which power_control.cpp the instance is built from
    ctor,       \* the arguments the instance was constructed with
    pc,         \* the PowerControl object: its five data members
    op,         \* the method called last ("PowerControl" = the constructor)
    args,       \* the arguments of that call
    ret,        \* the value it returned
    calls,      \* the HAL calls it issued, in order, with their results
    pre,        \* the object before that call
    peer,       \* a second PowerControl object, on another pin of the same HAL
    target,     \* the object the last method was called on: "pc" or "peer"
    written     \* the level the HAL last accepted on pc's pin since the pin
                \* was last reset: <<level>>, or <<>> when there is none

vars == <<revision, ctor, pc, op, args, ret, calls, pre, peer, target, written>>

\* ------------------------------------------------------------------------
\* HAL calls as seen by the (mock) IGpioHAL: name, arguments, returned value
HalResetPin(pin, r) == [fn |-> "reset_pin", pin |-> pin, ret |-> r]

HalConfig(config, r) == [fn |-> "config", config |-> config, ret |-> r]

HalSetLevel(pin, level, r) == [fn |-> "set_level", pin |-> pin, level |-> level, ret |-> r]

HalSetDriveCapability(pin, strength, r) ==
    [fn |-> "set_drive_capability", pin |-> pin, strength |-> strength, ret |-> r]

\* What a method leaves behind: the object, the return value, the HAL calls
\* What a pin holds after a sequence of HAL calls on it: the level of the last
\* set_level the HAL accepted, nothing after an accepted reset_pin
pin_level(held, c) ==
    LET accepted == {i \in DOMAIN c : c[i].ret = ESP_OK /\ c[i].fn \in {"set_level", "reset_pin"}}
    IN  IF accepted = {}
        THEN held
        ELSE LET last == CHOOSE i \in accepted : \A j \in accepted : j <= i
             IN  IF c[last].fn = "set_level" THEN <<c[last].level>> ELSE <<>>

Outcome(self, r, c) == [self |-> self, ret |-> r, calls |-> c]

\* ------------------------------------------------------------------------
\* Variant of the constructor that starts the logical state at initial_on
PowerControl_initial_on(gpio, inverted_logic, initial_on) ==
    [gpio_ |-> gpio,
     inverted_logic_ |-> inverted_logic,
     initial_on_ |-> initial_on,
     initialized_ |-> FALSE,
     is_on_ |-> initial_on]

\* PowerControl::PowerControl and the default member initializers
PowerControl(gpio, inverted_logic, initial_on) ==
    [gpio_ |-> gpio,
     inverted_logic_ |-> inverted_logic,
     initial_on_ |-> initial_on,
     initialized_ |-> FALSE,
     is_on_ |-> FALSE]

\* Variant of io_conf that leaves the pin an input
io_conf_input_only(self) ==
    [mode |-> "GPIO_MODE_INPUT",
     pin_bit_mask |-> 2 ^ self.gpio_,
     pull_down_en |-> "GPIO_PULLDOWN_DISABLE",
     pull_up_en |-> "GPIO_PULLUP_DISABLE",
     intr_type |-> "GPIO_INTR_DISABLE"]

\* The gpio_config_t init() builds (gpio_ < 64, so 1ULL << gpio_ is exact)
io_conf(self) ==
    [mode |-> "GPIO_MODE_INPUT_OUTPUT",
     pin_bit_mask |-> 2 ^ self.gpio_,
     pull_down_en |-> "GPIO_PULLDOWN_DISABLE",
     pull_up_en |-> "GPIO_PULLUP_DISABLE",
     intr_type |-> "GPIO_INTR_DISABLE"]

\* Variant of apply_gpio that omits the initialized_ check
apply_gpio_unguarded(self, enable, r) ==
    LET level == IF self.inverted_logic_ THEN ~enable ELSE enable
        hal == <<HalSetLevel(self.gpio_, level, r)>>
    IN  IF r # ESP_OK
        THEN Outcome(self, r, hal)
        ELSE Outcome([self EXCEPT !.is_on_ = enable], ESP_OK, hal)

\* Variant of apply_gpio that writes the logical state as the physical level
apply_gpio_uninverted(self, enable, r) ==
    IF ~self.initialized_
    THEN Outcome(self, ESP_ERR_INVALID_STATE, <<>>)
    ELSE LET hal == <<HalSetLevel(self.gpio_, enable, r)>>
         IN  IF r # ESP_OK
             THEN Outcome(self, r, hal)
             ELSE Outcome([self EXCEPT !.is_on_ = enable], ESP_OK, hal)

\* Variant of apply_gpio that records the logical state before the write
apply_gpio_eager(self, enable, r) ==
    IF ~self.initialized_
    THEN Outcome(self, ESP_ERR_INVALID_STATE, <<>>)
    ELSE LET level == IF self.inverted_logic_ THEN ~enable ELSE enable
             hal == <<HalSetLevel(self.gpio_, level, r)>>
             recorded == [self EXCEPT !.is_on_ = enable]
         IN  IF r # ESP_OK
             THEN Outcome(recorded, r, hal)
             ELSE Outcome(recorded, ESP_OK, hal)

\* Variant of apply_gpio that records the physical level as the logical state
apply_gpio_stores_level(self, enable, r) ==
    IF ~self.initialized_
    THEN Outcome(self, ESP_ERR_INVALID_STATE, <<>>)
    ELSE LET level == IF self.inverted_logic_ THEN ~enable ELSE enable
             hal == <<HalSetLevel(self.gpio_, level, r)>>
         IN  IF r # ESP_OK
             THEN Outcome(self, r, hal)
             ELSE Outcome([self EXCEPT !.is_on_ = level], ESP_OK, hal)

\* Variant of apply_gpio that gives up the pin when the write fails
apply_gpio_drops_initialized(self, enable, r) ==
    IF ~self.initialized_
    THEN Outcome(self, ESP_ERR_INVALID_STATE, <<>>)
    ELSE LET level == IF self.inverted_logic_ THEN ~enable ELSE enable
             hal == <<HalSetLevel(self.gpio_, level, r)>>
         IN  IF r # ESP_OK
             THEN Outcome([self EXCEPT !.initialized_ = FALSE], r, hal)
             ELSE Outcome([self EXCEPT !.is_on_ = enable], ESP_OK, hal)

\* Variant of apply_gpio that repeats a failed write once
apply_gpio_retry(self, enable, r) ==
    IF ~self.initialized_
    THEN Outcome(self, ESP_ERR_INVALID_STATE, <<>>)
    ELSE LET level == IF self.inverted_logic_ THEN ~enable ELSE enable
             write == HalSetLevel(self.gpio_, level, r)
         IN  IF r # ESP_OK
             THEN Outcome(self, r, <<write, write>>)
             ELSE Outcome([self EXCEPT !.is_on_ = enable], ESP_OK, <<write>>)

\* Variant of apply_gpio that skips the write when the state is already the requested one
apply_gpio_cached(self, enable, r) ==
    IF ~self.initialized_
    THEN Outcome(self, ESP_ERR_INVALID_STATE, <<>>)
    ELSE IF self.is_on_ = enable
    THEN Outcome(self, ESP_OK, <<>>)
    ELSE LET level == IF self.inverted_logic_ THEN ~enable ELSE enable
             write == HalSetLevel(self.gpio_, level, r)
         IN  IF r # ESP_OK
             THEN Outcome(self, r, <<write>>)
             ELSE Outcome([self EXCEPT !.is_on_ = enable], ESP_OK, <<write>>)

\* PowerControl::apply_gpio; r is what hal_.set_level returns if it is called
apply_gpio(self, enable, r) ==
    IF ~self.initialized_
    THEN Outcome(self, ESP_ERR_INVALID_STATE, <<>>)
    ELSE LET level == IF self.inverted_logic_ THEN ~enable ELSE enable
             hal == <<HalSetLevel(self.gpio_, level, r)>>
         IN  IF r # ESP_OK
             THEN Outcome(self, r, hal)
             ELSE Outcome([self EXCEPT !.is_on_ = enable], ESP_OK, hal)

turn_on(self, r) == apply_gpio(self, TRUE, r)

turn_off(self, r) == apply_gpio(self, FALSE, r)

\* Variant of toggle that re-applies the current state
toggle_unnegated(self, r) == apply_gpio(self, self.is_on_, r)

\* Variant of toggle that always requests ON
toggle_always_on(self, r) == apply_gpio(self, TRUE, r)

toggle(self, r) == apply_gpio(self, ~self.is_on_, r)

\* Variant of init that always applies OFF as the initial state
init_initial_off(self, r_reset, r_config, r_level) ==
    IF self.initialized_
    THEN Outcome(self, ESP_OK, <<>>)
    ELSE LET reset == HalResetPin(self.gpio_, r_reset)
             config == HalConfig(io_conf(self), r_config)
         IN  IF r_reset # ESP_OK
             THEN Outcome(self, r_reset, <<reset>>)
             ELSE IF r_config # ESP_OK
             THEN Outcome(self, r_config, <<reset, config>>)
             ELSE LET marked == [self EXCEPT !.initialized_ = TRUE]
                      initial == turn_off(marked, r_level)
                  IN  Outcome(initial.self, ESP_OK, <<reset, config>> \o initial.calls)

\* Variant of init that returns the result of the initial-state write
init_propagating(self, r_reset, r_config, r_level) ==
    IF self.initialized_
    THEN Outcome(self, ESP_OK, <<>>)
    ELSE LET reset == HalResetPin(self.gpio_, r_reset)
             config == HalConfig(io_conf(self), r_config)
         IN  IF r_reset # ESP_OK
             THEN Outcome(self, r_reset, <<reset>>)
             ELSE IF r_config # ESP_OK
             THEN Outcome(self, r_config, <<reset, config>>)
             ELSE LET marked == [self EXCEPT !.initialized_ = TRUE]
                      initial == IF self.initial_on_
                                 THEN turn_on(marked, r_level)
                                 ELSE turn_off(marked, r_level)
                  IN  Outcome(initial.self, initial.ret, <<reset, config>> \o initial.calls)

\* Variant of init that omits the already-initialized check
init_unguarded(self, r_reset, r_config, r_level) ==
    LET reset == HalResetPin(self.gpio_, r_reset)
        config == HalConfig(io_conf(self), r_config)
    IN  IF r_reset # ESP_OK
        THEN Outcome(self, r_reset, <<reset>>)
        ELSE IF r_config # ESP_OK
        THEN Outcome(self, r_config, <<reset, config>>)
        ELSE LET marked == [self EXCEPT !.initialized_ = TRUE]
                 initial == IF self.initial_on_
                            THEN turn_on(marked, r_level)
                            ELSE turn_off(marked, r_level)
             IN  Outcome(initial.self, ESP_OK, <<reset, config>> \o initial.calls)

\* Variant of init that does not check the result of reset_pin
init_ignores_reset(self, r_reset, r_config, r_level) ==
    IF self.initialized_
    THEN Outcome(self, ESP_OK, <<>>)
    ELSE LET reset == HalResetPin(self.gpio_, r_reset)
             config == HalConfig(io_conf(self), r_config)
         IN  IF r_config # ESP_OK
             THEN Outcome(self, r_config, <<reset, config>>)
             ELSE LET marked == [self EXCEPT !.initialized_ = TRUE]
                      initial == IF self.initial_on_
                                 THEN turn_on(marked, r_level)
                                 ELSE turn_off(marked, r_level)
                  IN  Outcome(initial.self, ESP_OK, <<reset, config>> \o initial.calls)

\* Variant of init that sets initialized_ before config is called
init_marks_before_config(self, r_reset, r_config, r_level) ==
    IF self.initialized_
    THEN Outcome(self, ESP_OK, <<>>)
    ELSE LET reset == HalResetPin(self.gpio_, r_reset)
             config == HalConfig(io_conf(self), r_config)
             marked == [self EXCEPT !.initialized_ = TRUE]
         IN  IF r_reset # ESP_OK
             THEN Outcome(self, r_reset, <<reset>>)
             ELSE IF r_config # ESP_OK
             THEN Outcome(marked, r_config, <<reset, config>>)
             ELSE LET initial == IF self.initial_on_
                                 THEN turn_on(marked, r_level)
                                 ELSE turn_off(marked, r_level)
                  IN  Outcome(initial.self, ESP_OK, <<reset, config>> \o initial.calls)

\* Variant of init that records initial_on whatever the initial write returns
init_assumes_initial(self, r_reset, r_config, r_level) ==
    IF self.initialized_
    THEN Outcome(self, ESP_OK, <<>>)
    ELSE LET reset == HalResetPin(self.gpio_, r_reset)
             config == HalConfig(io_conf(self), r_config)
         IN  IF r_reset # ESP_OK
             THEN Outcome(self, r_reset, <<reset>>)
             ELSE IF r_config # ESP_OK
             THEN Outcome(self, r_config, <<reset, config>>)
             ELSE LET marked == [self EXCEPT !.initialized_ = TRUE]
                      initial == IF self.initial_on_
                                 THEN turn_on(marked, r_level)
                                 ELSE turn_off(marked, r_level)
                  IN  Outcome([initial.self EXCEPT !.is_on_ = self.initial_on_], ESP_OK,
                              <<reset, config>> \o initial.calls)

\* Variant of init that rejects a second init() as the interface comment says
init_rejects_reinit(self, r_reset, r_config, r_level) ==
    IF self.initialized_
    THEN Outcome(self, ESP_ERR_INVALID_STATE, <<>>)
    ELSE LET reset == HalResetPin(self.gpio_, r_reset)
             config == HalConfig(io_conf(self), r_config)
         IN  IF r_reset # ESP_OK
             THEN Outcome(self, r_reset, <<reset>>)
             ELSE IF r_config # ESP_OK
             THEN Outcome(self, r_config, <<reset, config>>)
             ELSE LET marked == [self EXCEPT !.initialized_ = TRUE]
                      initial == IF self.initial_on_
                                 THEN turn_on(marked, r_level)
                                 ELSE turn_off(marked, r_level)
                  IN  Outcome(initial.self, ESP_OK, <<reset, config>> \o initial.calls)

\* Variant of init whose initial write always drives the pin LOW
init_forces_low(self, r_reset, r_config, r_level) ==
    IF self.initialized_
    THEN Outcome(self, ESP_OK, <<>>)
    ELSE LET reset == HalResetPin(self.gpio_, r_reset)
             config == HalConfig(io_conf(self), r_config)
         IN  IF r_reset # ESP_OK
             THEN Outcome(self, r_reset, <<reset>>)
             ELSE IF r_config # ESP_OK
             THEN Outcome(self, r_config, <<reset, config>>)
             ELSE LET marked == [self EXCEPT !.initialized_ = TRUE]
                      initial == apply_gpio(marked, self.inverted_logic_, r_level)
                  IN  Outcome(initial.self, ESP_OK, <<reset, config>> \o initial.calls)

\* Variant of init that sets initialized_ only after the initial write
init_marks_after_write(self, r_reset, r_config, r_level) ==
    IF self.initialized_
    THEN Outcome(self, ESP_OK, <<>>)
    ELSE LET reset == HalResetPin(self.gpio_, r_reset)
             config == HalConfig(io_conf(self), r_config)
         IN  IF r_reset # ESP_OK
             THEN Outcome(self, r_reset, <<reset>>)
             ELSE IF r_config # ESP_OK
             THEN Outcome(self, r_config, <<reset, config>>)
             ELSE LET initial == IF self.initial_on_
                                 THEN turn_on(self, r_level)
                                 ELSE turn_off(self, r_level)
                  IN  Outcome([initial.self EXCEPT !.initialized_ = TRUE], ESP_OK,
                              <<reset, config>> \o initial.calls)

\* Variant of init that gives up the initialized flag when the initial write fails
init_unmarks_on_failed_write(self, r_reset, r_config, r_level) ==
    IF self.initialized_
    THEN Outcome(self, ESP_OK, <<>>)
    ELSE LET reset == HalResetPin(self.gpio_, r_reset)
             config == HalConfig(io_conf(self), r_config)
         IN  IF r_reset # ESP_OK
             THEN Outcome(self, r_reset, <<reset>>)
             ELSE IF r_config # ESP_OK
             THEN Outcome(self, r_config, <<reset, config>>)
             ELSE LET marked == [self EXCEPT !.initialized_ = TRUE]
                      initial == IF self.initial_on_
                                 THEN turn_on(marked, r_level)
                                 ELSE turn_off(marked, r_level)
                  IN  Outcome([initial.self EXCEPT !.initialized_ = (initial.ret = ESP_OK)],
                              ESP_OK, <<reset, config>> \o initial.calls)

\* Variant of init that records the initial state before the pin is reset
init_dirty_on_reset_failure(self, r_reset, r_config, r_level) ==
    IF self.initialized_
    THEN Outcome(self, ESP_OK, <<>>)
    ELSE LET reset == HalResetPin(self.gpio_, r_reset)
             config == HalConfig(io_conf(self), r_config)
             dirty == [self EXCEPT !.is_on_ = self.initial_on_]
         IN  IF r_reset # ESP_OK
             THEN Outcome(dirty, r_reset, <<reset>>)
             ELSE IF r_config # ESP_OK
             THEN Outcome(dirty, r_config, <<reset, config>>)
             ELSE LET marked == [self EXCEPT !.initialized_ = TRUE]
                      initial == IF self.initial_on_
                                 THEN turn_on(marked, r_level)
                                 ELSE turn_off(marked, r_level)
                  IN  Outcome(initial.self, ESP_OK, <<reset, config>> \o initial.calls)

\* PowerControl::init; r_reset, r_config, r_level are what hal_.reset_pin,
\* hal_.config and hal_.set_level return if they are called
init(self, r_reset, r_config, r_level) ==
    IF self.initialized_
    THEN Outcome(self, ESP_OK, <<>>)
    ELSE LET reset == HalResetPin(self.gpio_, r_reset)
             config == HalConfig(io_conf(self), r_config)
         IN  IF r_reset # ESP_OK
             THEN Outcome(self, r_reset, <<reset>>)
             ELSE IF r_config # ESP_OK
             THEN Outcome(self, r_config, <<reset, config>>)
             ELSE LET marked == [self EXCEPT !.initialized_ = TRUE]
                      initial == IF self.initial_on_
                                 THEN turn_on(marked, r_level)
                                 ELSE turn_off(marked, r_level)
                  IN  Outcome(initial.self, ESP_OK, <<reset, config>> \o initial.calls)

\* Variant of deinit that omits the not-initialized check
deinit_unguarded(self, r_level, r_reset) ==
    LET low == HalSetLevel(self.gpio_, FALSE, r_level)
        reset == HalResetPin(self.gpio_, r_reset)
    IN  IF r_level # ESP_OK
        THEN Outcome(self, r_level, <<low>>)
        ELSE IF r_reset # ESP_OK
        THEN Outcome(self, r_reset, <<low, reset>>)
        ELSE Outcome([self EXCEPT !.initialized_ = FALSE, !.is_on_ = FALSE],
                     r_reset, <<low, reset>>)

\* Variant of deinit that writes the level of logical OFF instead of LOW
deinit_logical_off(self, r_level, r_reset) ==
    IF ~self.initialized_
    THEN Outcome(self, ESP_OK, <<>>)
    ELSE LET low == HalSetLevel(self.gpio_, self.inverted_logic_, r_level)
             reset == HalResetPin(self.gpio_, r_reset)
         IN  IF r_level # ESP_OK
             THEN Outcome(self, r_level, <<low>>)
             ELSE IF r_reset # ESP_OK
             THEN Outcome(self, r_reset, <<low, reset>>)
             ELSE Outcome([self EXCEPT !.initialized_ = FALSE, !.is_on_ = FALSE],
                          r_reset, <<low, reset>>)

\* Variant of deinit that leaves is_on_ as it was
deinit_keeps_is_on(self, r_level, r_reset) ==
    IF ~self.initialized_
    THEN Outcome(self, ESP_OK, <<>>)
    ELSE LET low == HalSetLevel(self.gpio_, FALSE, r_level)
             reset == HalResetPin(self.gpio_, r_reset)
         IN  IF r_level # ESP_OK
             THEN Outcome(self, r_level, <<low>>)
             ELSE IF r_reset # ESP_OK
             THEN Outcome(self, r_reset, <<low, reset>>)
             ELSE Outcome([self EXCEPT !.initialized_ = FALSE], r_reset, <<low, reset>>)

\* PowerControl::deinit of src/src/power_control.cpp
deinit(self, r_level, r_reset) ==
    IF ~self.initialized_
    THEN Outcome(self, ESP_OK, <<>>)
    ELSE LET low == HalSetLevel(self.gpio_, FALSE, r_level)
             reset == HalResetPin(self.gpio_, r_reset)
         IN  IF r_level # ESP_OK
             THEN Outcome(self, r_level, <<low>>)
             ELSE IF r_reset # ESP_OK
             THEN Outcome(self, r_reset, <<low, reset>>)
             ELSE Outcome([self EXCEPT !.initialized_ = FALSE, !.is_on_ = FALSE],
                          r_reset, <<low, reset>>)

\* Variant of deinit (part_000) in which a later error overrides an earlier one
deinit_part_000_last_error(self, r_level, r_reset) ==
    IF ~self.initialized_
    THEN Outcome(self, ESP_OK, <<>>)
    ELSE LET low == HalSetLevel(self.gpio_, FALSE, r_level)
             reset == HalResetPin(self.gpio_, r_reset)
             final_ret == IF r_reset # ESP_OK THEN r_reset
                          ELSE IF r_level # ESP_OK THEN r_level
                          ELSE ESP_OK
         IN  Outcome([self EXCEPT !.initialized_ = FALSE, !.is_on_ = FALSE],
                     final_ret, <<low, reset>>)

\* PowerControl::deinit of src/unnamed/part_000
deinit_part_000(self, r_level, r_reset) ==
    IF ~self.initialized_
    THEN Outcome(self, ESP_OK, <<>>)
    ELSE LET low == HalSetLevel(self.gpio_, FALSE, r_level)
             reset == HalResetPin(self.gpio_, r_reset)
             final_ret == IF r_level # ESP_OK THEN r_level
                          ELSE IF r_reset # ESP_OK THEN r_reset
                          ELSE ESP_OK
         IN  Outcome([self EXCEPT !.initialized_ = FALSE, !.is_on_ = FALSE],
                     final_ret, <<low, reset>>)

\* Variant of set_drive_capability that always addresses pin 0
set_drive_capability_pin_0(self, strength, r) ==
    Outcome(self, r, <<HalSetDriveCapability(0, strength, r)>>)

\* PowerControl::set_drive_capability of src/src/power_control.cpp
set_drive_capability(self, strength, r) ==
    Outcome(self, r, <<HalSetDriveCapability(self.gpio_, strength, r)>>)

\* Variant of set_drive_capability (part_000) that reports any failure as ESP_FAIL
set_drive_capability_part_000_generic(self, strength, r) ==
    IF ~self.initialized_
    THEN Outcome(self, ESP_ERR_INVALID_STATE, <<>>)
    ELSE Outcome(self, IF r # ESP_OK THEN ESP_FAIL ELSE r,
                 <<HalSetDriveCapability(self.gpio_, strength, r)>>)

\* PowerControl::set_drive_capability of src/unnamed/part_000
set_drive_capability_part_000(self, strength, r) ==
    IF ~self.initialized_
    THEN Outcome(self, ESP_ERR_INVALID_STATE, <<>>)
    ELSE Outcome(self, r, <<HalSetDriveCapability(self.gpio_, strength, r)>>)

\* Variant of get_pin that reports no pin while the instance is not initialized
get_pin_when_initialized(self) == IF self.initialized_ THEN self.gpio_ ELSE -1

\* The accessors of power_control.hpp
is_on(self) == self.is_on_

is_initialized(self) == self.initialized_

get_pin(self) == self.gpio_

\* ------------------------------------------------------------------------
\* The caller: constructs one instance, then calls its methods in any order
\* while the HAL answers each call with any esp_err_t.

Init ==
    /\ revision \in Revisions
    /\ \E gpio \in Pins, inverted_logic \in BOOLEAN, initial_on \in BOOLEAN :
           /\ ctor = [gpio |-> gpio, inverted_logic |-> inverted_logic, initial_on |-> initial_on]
           /\ pc = PowerControl(gpio, inverted_logic, initial_on)
    /\ op = "PowerControl"
    /\ args = <<>>
    /\ ret = "void"
    /\ calls = <<>>
    /\ pre = pc
    /\ \E inverted_logic \in BOOLEAN, initial_on \in BOOLEAN :
           peer = PowerControl(OtherPin(ctor.gpio), inverted_logic, initial_on)
    /\ target = "pc"
    /\ written = <<>>

\* Variant of Call in which the state members are shared by all instances (static)
Call_static_members(name, a, out) ==
    /\ op' = name
    /\ args' = a
    /\ pre' = pc
    /\ pc' = out.self
    /\ ret' = out.ret
    /\ calls' = out.calls
    /\ target' = "pc"
    /\ written' = pin_level(written, out.calls)
    /\ peer' = [peer EXCEPT !.initialized_ = out.self.initialized_,
                            !.is_on_ = out.self.is_on_]
    /\ UNCHANGED <<revision, ctor>>

\* One synchronous method call on pc, run to completion
Call(name, a, out) ==
    /\ op' = name
    /\ args' = a
    /\ pre' = pc
    /\ pc' = out.self
    /\ ret' = out.ret
    /\ calls' = out.calls
    /\ target' = "pc"
    /\ written' = pin_level(written, out.calls)
    /\ UNCHANGED <<revision, ctor, peer>>

Call_init ==
    \E r_reset \in HalResults, r_config \in HalResults, r_level \in HalResults :
        Call("init", <<>>, init(pc, r_reset, r_config, r_level))

Call_deinit ==
    \E r_level \in HalResults, r_reset \in HalResults :
        Call("deinit", <<>>,
             IF revision = "src"
             THEN deinit(pc, r_level, r_reset)
             ELSE deinit_part_000(pc, r_level, r_reset))

Call_turn_on == \E r \in HalResults : Call("turn_on", <<>>, turn_on(pc, r))

Call_turn_off == \E r \in HalResults : Call("turn_off", <<>>, turn_off(pc, r))

Call_toggle == \E r \in HalResults : Call("toggle", <<>>, toggle(pc, r))

Call_set_drive_capability ==
    \E strength \in DriveCaps, r \in HalResults :
        Call("set_drive_capability", <<strength>>,
             IF revision = "src"
             THEN set_drive_capability(pc, strength, r)
             ELSE set_drive_capability_part_000(pc, strength, r))

\* The accessors are const: they return a value and leave the object alone
Call_is_on == Call("is_on", <<>>, Outcome(pc, is_on(pc), <<>>))

Call_is_initialized == Call("is_initialized", <<>>, Outcome(pc, is_initialized(pc), <<>>))

Call_get_pin == Call("get_pin", <<>>, Outcome(pc, get_pin(pc), <<>>))

Next ==
    \/ Call_init
    \/ Call_deinit
    \/ Call_turn_on
    \/ Call_turn_off
    \/ Call_toggle
    \/ Call_set_drive_capability
    \/ Call_is_on
    \/ Call_is_initialized
    \/ Call_get_pin

Spec == Init /\ [][Next]_vars

\* ------------------------------------------------------------------------
\* Two instances over one HAL: the same methods, called on peer

\* One synchronous method call on peer, run to completion
PeerCall(name, a, out) ==
    /\ op' = name
    /\ args' = a
    /\ pre' = peer
    /\ peer' = out.self
    /\ ret' = out.ret
    /\ calls' = out.calls
    /\ target' = "peer"
    /\ UNCHANGED <<revision, ctor, pc, written>>

Peer_init ==
    \E r_reset \in HalResults, r_config \in HalResults, r_level \in HalResults :
        PeerCall("init", <<>>, init(peer, r_reset, r_config, r_level))

Peer_deinit ==
    \E r_level \in HalResults, r_reset \in HalResults :
        PeerCall("deinit", <<>>,
                 IF revision = "src"
                 THEN deinit(peer, r_level, r_reset)
                 ELSE deinit_part_000(peer, r_level, r_reset))

Peer_turn_on == \E r \in HalResults : PeerCall("turn_on", <<>>, turn_on(peer, r))

Peer_turn_off == \E r \in HalResults : PeerCall("turn_off", <<>>, turn_off(peer, r))

Peer_toggle == \E r \in HalResults : PeerCall("toggle", <<>>, toggle(peer, r))

Peer_set_drive_capability ==
    \E strength \in DriveCaps, r \in HalResults :
        PeerCall("set_drive_capability", <<strength>>,
                 IF revision = "src"
                 THEN set_drive_capability(peer, strength, r)
                 ELSE set_drive_capability_part_000(peer, strength, r))

Peer_is_on == PeerCall("is_on", <<>>, Outcome(peer, is_on(peer), <<>>))

Peer_is_initialized == PeerCall("is_initialized", <<>>, Outcome(peer, is_initialized(peer), <<>>))

Peer_get_pin == PeerCall("get_pin", <<>>, Outcome(peer, get_pin(peer), <<>>))

NextPair ==
    \/ Next
    \/ Peer_init
    \/ Peer_deinit
    \/ Peer_turn_on
    \/ Peer_turn_off
    \/ Peer_toggle
    \/ Peer_set_drive_capability
    \/ Peer_is_on
    \/ Peer_is_initialized
    \/ Peer_get_pin

SpecPair == Init /\ [][NextPair]_vars

TypeOK ==
    /\ revision \in Revisions
    /\ pc.gpio_ \in Pins
    /\ pc.inverted_logic_ \in BOOLEAN
    /\ pc.initial_on_ \in BOOLEAN
    /\ pc.initialized_ \in BOOLEAN
    /\ pc.is_on_ \in BOOLEAN
    /\ ctor.gpio \in Pins
    /\ peer.gpio_ \in Pins \ {pc.gpio_}
    /\ peer.inverted_logic_ \in BOOLEAN
    /\ peer.initial_on_ \in BOOLEAN
    /\ peer.initialized_ \in BOOLEAN
    /\ peer.is_on_ \in BOOLEAN
    /\ target \in {"pc", "peer"}
    /\ written \in {<<>>, <<FALSE>>, <<TRUE>>}
    /\ op \in {"is_on", "is_initialized"} => ret \in BOOLEAN
    /\ op = "get_pin" => ret \in Pins
    /\ op = "PowerControl" => ret = "void"
    /\ op \notin {"is_on", "is_initialized", "get_pin", "PowerControl"} => ret \in HalResults
    /\ Len(calls) <= 3

\* ------------------------------------------------------------------------
\* Properties.  Each is about the call that has just returned: `op` names it,
\* `pre` is the object before it, `pc` the object after it.

OutputOps == {"turn_on", "turn_off", "toggle"}

\* Some call of HAL function fn issued by the last operation returned an error
Failed(fn) == \E i \in DOMAIN calls : calls[i].fn = fn /\ calls[i].ret # ESP_OK

\* The error that call returned
ErrorOf(fn) ==
    calls[CHOOSE i \in DOMAIN calls : calls[i].fn = fn /\ calls[i].ret # ESP_OK].ret

\* C1: on an uninitialized instance turn_on(), turn_off() and toggle() return
\* ESP_ERR_INVALID_STATE, issue no HAL call and leave the object unchanged.
C1_OutputGuard ==
    (op \in OutputOps /\ ~pre.initialized_)
        => (ret = ESP_ERR_INVALID_STATE /\ calls = <<>> /\ pc = pre)

C1_Witness ==
    /\ op = "toggle"
    /\ ~pre.initialized_
    /\ ret = ESP_ERR_INVALID_STATE
    /\ calls = <<>>

\* C2: on an uninitialized instance set_drive_capability(strength) returns
\* ESP_ERR_INVALID_STATE and never calls the HAL's set_drive_capability.
C2_DriveGuard ==
    (op = "set_drive_capability" /\ ~pre.initialized_)
        => /\ ret = ESP_ERR_INVALID_STATE
           /\ \A i \in DOMAIN calls : calls[i].fn # "set_drive_capability"

\* C3: after deinit() called on an initialized instance the instance is
\* uninitialized and logically off, whatever the HAL calls returned.
C3_DeinitAlwaysCompletes ==
    (op = "deinit" /\ pre.initialized_) => (~pc.initialized_ /\ ~pc.is_on_)

\* C4: deinit() called on an initialized instance issues exactly two HAL
\* calls, set_level(pin, LOW) and then reset_pin(pin), also when set_level
\* returned an error.
C4_DeinitTwoCalls ==
    (op = "deinit" /\ pre.initialized_)
        => /\ Len(calls) = 2
           /\ calls[1].fn = "set_level"
           /\ calls[1].pin = pc.gpio_
           /\ calls[1].level = FALSE
           /\ calls[2].fn = "reset_pin"
           /\ calls[2].pin = pc.gpio_

\* C5: deinit() called on an initialized instance returns the first error
\* met: the set_level error if set_level failed, otherwise the reset_pin
\* error if reset_pin failed, otherwise ESP_OK.
C5_DeinitFirstError ==
    (op = "deinit" /\ pre.initialized_)
        => ret = IF Failed("set_level") THEN ErrorOf("set_level")
                 ELSE IF Failed("reset_pin") THEN ErrorOf("reset_pin")
                 ELSE ESP_OK

C5_Witness ==
    /\ op = "deinit"
    /\ pre.initialized_
    /\ Failed("set_level")
    /\ Failed("reset_pin")
    /\ ErrorOf("set_level") # ErrorOf("reset_pin")
    /\ ret = ErrorOf("set_level")

\* The initial-state write of an init() that went through the whole sequence
InitialWriteOk ==
    /\ Len(calls) = 3
    /\ calls[3].fn = "set_level"
    /\ calls[3].ret = ESP_OK

\* C6 as stated: whenever init() returns ESP_OK the instance is initialized
\* and is_on() equals initial_on.
C6_Original ==
    (op = "init" /\ ret = ESP_OK)
        => (pc.initialized_ /\ pc.is_on_ = pc.initial_on_)

\* C6 amended: whenever init() returns ESP_OK the instance is initialized;
\* when that init() was called on an uninitialized instance and its
\* initial-level set_level call succeeded, is_on() equals initial_on.
C6_InitPostcondition ==
    (op = "init" /\ ret = ESP_OK)
        => /\ pc.initialized_
           /\ (~pre.initialized_ /\ InitialWriteOk) => pc.is_on_ = pc.initial_on_

C6_Witness ==
    /\ op = "init"
    /\ ret = ESP_OK
    /\ ~pre.initialized_
    /\ InitialWriteOk
    /\ pc.initial_on_
    /\ pc.is_on_

\* C7: when reset_pin and config succeed during init(), init() returns ESP_OK
\* and leaves the instance initialized, also when the initial-level set_level
\* call fails; that error is not returned.
C7_InitIgnoresInitialWrite ==
    (/\ op = "init"
     /\ ~pre.initialized_
     /\ Len(calls) >= 2
     /\ calls[1].fn = "reset_pin" /\ calls[1].ret = ESP_OK
     /\ calls[2].fn = "config" /\ calls[2].ret = ESP_OK)
        => (ret = ESP_OK /\ pc.initialized_)

C7_Witness ==
    /\ op = "init"
    /\ ~pre.initialized_
    /\ Len(calls) = 3
    /\ calls[3].fn = "set_level"
    /\ calls[3].ret = ESP_ERR_INVALID_ARG
    /\ ret = ESP_OK
    /\ pc.initialized_

\* C8: init() on an initialized instance returns ESP_OK, issues no HAL call
\* and leaves the object unchanged; it does not re-apply initial_on.
C8_InitIdempotent ==
    (op = "init" /\ pre.initialized_)
        => (ret = ESP_OK /\ calls = <<>> /\ pc = pre)

C8_Witness ==
    /\ op = "init"
    /\ pre.initialized_
    /\ pre.is_on_ # pre.initial_on_
    /\ pc.is_on_ = pre.is_on_
    /\ ret = ESP_OK

\* C9: deinit() on an uninitialized instance returns ESP_OK, issues no HAL
\* call and changes no state.
C9_DeinitIdempotent ==
    (op = "deinit" /\ ~pre.initialized_)
        => (ret = ESP_OK /\ calls = <<>> /\ pc = pre)

C9_Witness ==
    /\ op = "deinit"
    /\ ~pre.initialized_
    /\ ~pc.initialized_
    /\ ret = ESP_OK
    /\ calls = <<>>

\* The logical state d the last operation asked for
Desired ==
    CASE op = "turn_on" -> TRUE
      [] op = "turn_off" -> FALSE
      [] op = "toggle" -> ~pre.is_on_
      [] op = "init" -> pc.initial_on_

\* C10: the set_level call issued by turn_on, turn_off, toggle and by init's
\* initial-state application writes the physical level (i ? !d : d) to the
\* instance's pin, d being the desired logical state and i inverted_logic.
C10_InversionLaw ==
    (op \in OutputOps \cup {"init"}) =>
        \A i \in DOMAIN calls :
            calls[i].fn = "set_level"
                => /\ calls[i].pin = pc.gpio_
                   /\ calls[i].level = (IF pc.inverted_logic_ THEN ~Desired ELSE Desired)

C10_Witness ==
    /\ op = "toggle"
    /\ pc.inverted_logic_
    /\ pre.is_on_
    /\ Len(calls) = 1
    /\ calls[1].fn = "set_level"
    /\ calls[1].level = TRUE

\* The logical state the last operation establishes when it writes a level
Established == IF op = "deinit" THEN FALSE ELSE Desired

\* C11 as stated: every physical level written by any operation, deinit()
\* included, equals (invertedLogic ? !s : s), s being the logical state the
\* operation establishes (false for deinit).
C11_Original ==
    \A i \in DOMAIN calls :
        calls[i].fn = "set_level"
            => calls[i].level = (IF pc.inverted_logic_ THEN ~Established ELSE Established)

\* C11 amended: every physical level written by turn_on, turn_off, toggle and
\* init equals (invertedLogic ? !s : s); the level deinit() writes is physical
\* LOW whatever invertedLogic is.
C11_LevelsWritten ==
    \A i \in DOMAIN calls :
        calls[i].fn = "set_level"
            => calls[i].level = IF op = "deinit" THEN FALSE
                                ELSE IF pc.inverted_logic_ THEN ~Desired ELSE Desired

C11_Witness ==
    /\ op = "deinit"
    /\ pre.initialized_
    /\ pc.inverted_logic_
    /\ Len(calls) >= 1
    /\ calls[1].fn = "set_level"
    /\ calls[1].level = FALSE

\* C12: when set_level fails during turn_on(), turn_off() or toggle() on an
\* initialized instance, the operation returns the HAL's error and leaves
\* is_on and initialized as they were.
C12_FailedWriteKeepsState ==
    (op \in OutputOps /\ pre.initialized_ /\ Failed("set_level"))
        => /\ ret = ErrorOf("set_level")
           /\ pc.is_on_ = pre.is_on_
           /\ pc.initialized_ = pre.initialized_

C12_Witness ==
    /\ op = "turn_on"
    /\ pre.initialized_
    /\ ~pre.is_on_
    /\ Failed("set_level")
    /\ ret = ESP_ERR_INVALID_ARG
    /\ ~pc.is_on_

\* The single set_level call of the last operation succeeded
WriteOk ==
    /\ Len(calls) = 1
    /\ calls[1].fn = "set_level"
    /\ calls[1].ret = ESP_OK

\* C13: on an initialized instance, when set_level succeeds, turn_on()
\* returns ESP_OK with is_on() true and turn_off() returns ESP_OK with is_on()
\* false, whatever the previous state and inverted_logic.
C13_SuccessfulWriteSetsState ==
    (op \in {"turn_on", "turn_off"} /\ pre.initialized_ /\ WriteOk)
        => /\ ret = ESP_OK
           /\ pc.is_on_ = (op = "turn_on")

C13_Witness ==
    /\ op = "turn_off"
    /\ pre.initialized_
    /\ pre.is_on_
    /\ pc.inverted_logic_
    /\ WriteOk
    /\ ~pc.is_on_

\* C14: if reset_pin fails during init(), init() returns that error, the
\* instance stays uninitialized and off, and neither config nor set_level is
\* called.
C14_InitResetFails ==
    (op = "init" /\ ~pre.initialized_ /\ Failed("reset_pin"))
        => /\ ret = ErrorOf("reset_pin")
           /\ ~pc.initialized_
           /\ ~pc.is_on_
           /\ \A i \in DOMAIN calls : calls[i].fn \notin {"config", "set_level"}

C14_Witness ==
    /\ op = "init"
    /\ ~pre.initialized_
    /\ Failed("reset_pin")
    /\ ret = ESP_ERR_INVALID_ARG
    /\ Len(calls) = 1

\* C15: if reset_pin succeeds but config fails during init(), init() returns
\* the config error, the instance stays uninitialized and no set_level call
\* is attempted.
C15_InitConfigFails ==
    (op = "init" /\ ~pre.initialized_ /\ ~Failed("reset_pin") /\ Failed("config"))
        => /\ ret = ErrorOf("config")
           /\ ~pc.initialized_
           /\ \A i \in DOMAIN calls : calls[i].fn # "set_level"

C15_Witness ==
    /\ op = "init"
    /\ ~pre.initialized_
    /\ Len(calls) = 2
    /\ calls[1].fn = "reset_pin" /\ calls[1].ret = ESP_OK
    /\ calls[2].fn = "config" /\ calls[2].ret = ESP_ERR_NO_MEM
    /\ ret = ESP_ERR_NO_MEM

\* C16: on an initialized instance set_drive_capability(strength) issues one
\* HAL set_drive_capability(pin, strength) call with the instance's pin and
\* the same strength, returns the HAL's result unchanged and changes neither
\* is_on nor initialized.
C16_DriveForwarded ==
    (op = "set_drive_capability" /\ pre.initialized_)
        => /\ Len(calls) = 1
           /\ calls[1].fn = "set_drive_capability"
           /\ calls[1].pin = ctor.gpio
           /\ calls[1].strength = args[1]
           /\ ret = calls[1].ret
           /\ pc.is_on_ = pre.is_on_
           /\ pc.initialized_ = pre.initialized_

C16_Witness ==
    /\ op = "set_drive_capability"
    /\ pre.initialized_
    /\ args = <<GPIO_DRIVE_CAP_3>>
    /\ Len(calls) = 1
    /\ calls[1].strength = GPIO_DRIVE_CAP_3
    /\ ret = ESP_ERR_INVALID_ARG

\* C17: in every state and for every HAL outcome, toggle() has the return
\* value, HAL calls and resulting state that turn_on() would have if is_on()
\* is false, and that turn_off() would have if is_on() is true.
C17_ToggleEquivalence ==
    op = "toggle" =>
        \A r \in HalResults :
            (calls = <<>> \/ calls[1].ret = r)
                => Outcome(pc, ret, calls) =
                       IF pre.is_on_ THEN turn_off(pre, r) ELSE turn_on(pre, r)

C17_Witness ==
    /\ op = "toggle"
    /\ pre.initialized_
    /\ pre.is_on_
    /\ WriteOk
    /\ ~pc.is_on_

Accessors == {"is_on", "is_initialized", "get_pin"}

\* C18: is_on(), is_initialized() and get_pin() issue no HAL call and change
\* no state; get_pin() returns the pin given at construction in every
\* reachable state.
C18_AccessorsPure ==
    op \in Accessors
        => /\ calls = <<>>
           /\ pc = pre
           /\ op = "get_pin" => ret = ctor.gpio

C18_Witness ==
    /\ op = "get_pin"
    /\ ~pc.initialized_
    /\ ctor.gpio = 4
    /\ ret = 4

\* C19: a newly constructed instance is uninitialized with is_on() false and
\* construction issues no HAL call, for every pin, inverted_logic and
\* initial_on.
C19_Constructed ==
    op = "PowerControl"
        => /\ ~pc.initialized_
           /\ ~pc.is_on_
           /\ calls = <<>>
           /\ pc.gpio_ = ctor.gpio
           /\ pc.inverted_logic_ = ctor.inverted_logic
           /\ pc.initial_on_ = ctor.initial_on

C19_Witness ==
    /\ op = "PowerControl"
    /\ ctor.initial_on
    /\ ~pc.is_on_
    /\ ~pc.initialized_

\* C20: initialized changes from false to true only inside init() and from
\* true to false only inside deinit(); turn_on(), turn_off(), toggle() and
\* set_drive_capability() never change it.
C20_InitializedFrame ==
    /\ (~pre.initialized_ /\ pc.initialized_) => op = "init"
    /\ (pre.initialized_ /\ ~pc.initialized_) => op = "deinit"

C20_Witness ==
    /\ op = "toggle"
    /\ pre.initialized_
    /\ Failed("set_level")
    /\ pc.initialized_

LevelOps == OutputOps \cup {"init"}

\* The last HAL call of the last operation was a set_level that succeeded
LevelWritten ==
    /\ Len(calls) >= 1
    /\ calls[Len(calls)].fn = "set_level"
    /\ calls[Len(calls)].ret = ESP_OK

\* C21: is_on() changes only through a level-changing operation (turn_on,
\* turn_off, toggle, init's initial-state application) whose set_level call
\* succeeded, or through deinit() forcing it to false; set_drive_capability(),
\* a no-op init(), a no-op deinit() and failed operations leave it unchanged.
C21_IsOnFrame ==
    /\ pc.is_on_ # pre.is_on_
           => \/ (op \in LevelOps /\ LevelWritten /\ pc.is_on_ = Desired)
              \/ (op = "deinit" /\ pre.initialized_ /\ ~pc.is_on_)
    /\ op = "set_drive_capability" => pc.is_on_ = pre.is_on_
    /\ (op = "init" /\ pre.initialized_) => pc.is_on_ = pre.is_on_
    /\ (op = "deinit" /\ ~pre.initialized_) => pc.is_on_ = pre.is_on_
    /\ (op \in LevelOps /\ ret # ESP_OK) => pc.is_on_ = pre.is_on_
    /\ (op \in LevelOps /\ Failed("set_level")) => pc.is_on_ = pre.is_on_

C21_Witness ==
    /\ op = "init"
    /\ ~pre.initialized_
    /\ LevelWritten
    /\ ~pre.is_on_
    /\ pc.is_on_

\* C22: there is no terminal state: every deinit() call returns the instance
\* to Uninitialized, and from Uninitialized an init() whose reset_pin and
\* config calls succeed performs the full hardware sequence and returns it
\* to Initialized.
C22_NoTerminalState ==
    /\ op = "deinit" => ~pc.initialized_
    /\ (/\ op = "init"
        /\ ~pre.initialized_
        /\ Len(calls) >= 2
        /\ calls[1].ret = ESP_OK
        /\ calls[2].ret = ESP_OK)
           => (pc.initialized_ /\ Len(calls) = 3)

\* C24 as stated: init() on an already initialized component returns
\* ESP_ERR_INVALID_STATE.
C24_Original ==
    (op = "init" /\ pre.initialized_) => ret = ESP_ERR_INVALID_STATE

\* C24 amended: init() on an already initialized component returns ESP_OK
\* without any HAL call;
\* init() returns ESP_ERR_INVALID_STATE only when reset_pin or config
\* returned it.
C24_ReinitReturnsOk ==
    op = "init"
        => /\ pre.initialized_ => (ret = ESP_OK /\ calls = <<>>)
           /\ ret = ESP_ERR_INVALID_STATE
                  => /\ ~pre.initialized_
                     /\ calls[Len(calls)].fn \in {"reset_pin", "config"}
                     /\ calls[Len(calls)].ret = ESP_ERR_INVALID_STATE

C24_Witness ==
    /\ op = "init"
    /\ pre.initialized_
    /\ pc.initialized_
    /\ calls = <<>>
    /\ ret = ESP_OK

\* C25 as stated: the level written by the set_level call of an init() that
\* performs hardware initialization is LOW for every inverted_logic and
\* initial_on.
C25_Original ==
    op = "init" =>
        \A i \in DOMAIN calls : calls[i].fn = "set_level" => calls[i].level = FALSE

\* C25 amended: the level written by that set_level call is LOW exactly when
\* inverted_logic equals initial_on (OFF under normal logic, ON under
\* inverted logic) and HIGH otherwise.
C25_InitialLevel ==
    op = "init" =>
        \A i \in DOMAIN calls :
            calls[i].fn = "set_level"
                => (calls[i].level = FALSE) = (ctor.inverted_logic = ctor.initial_on)

C25_Witness ==
    /\ op = "init"
    /\ ctor.inverted_logic
    /\ ~ctor.initial_on
    /\ Len(calls) = 3
    /\ calls[3].fn = "set_level"
    /\ calls[3].level = TRUE

\* Everything the configuration says except the direction
ConfigQuiet(config) ==
    /\ config.pull_up_en = "GPIO_PULLUP_DISABLE"
    /\ config.pull_down_en = "GPIO_PULLDOWN_DISABLE"
    /\ config.intr_type = "GPIO_INTR_DISABLE"
    /\ config.pin_bit_mask = 2 ^ ctor.gpio

\* The gpio_mode_t values that enable the output driver of the pin
\* (GPIO_MODE_DISABLE and GPIO_MODE_INPUT do not)
OutputModes ==
    {"GPIO_MODE_OUTPUT", "GPIO_MODE_OUTPUT_OD",
     "GPIO_MODE_INPUT_OUTPUT", "GPIO_MODE_INPUT_OUTPUT_OD"}

\* C26: the configuration init() passes to the HAL config call makes the pin
\* an output (its mode enables the output direction), has pull-up and
\* pull-down disabled, interrupts disabled and the pin mask 1 << pin.
C26_ConfigPassed ==
    \A i \in DOMAIN calls :
        calls[i].fn = "config"
            => (calls[i].config.mode \in OutputModes /\ ConfigQuiet(calls[i].config))

C26_Witness ==
    /\ op = "init"
    /\ ctor.gpio = 4
    /\ Len(calls) >= 2
    /\ calls[2].fn = "config"
    /\ calls[2].config.mode = "GPIO_MODE_INPUT_OUTPUT"
    /\ calls[2].config.pin_bit_mask = 16
    /\ calls[2].config.pull_up_en = "GPIO_PULLUP_DISABLE"
    /\ calls[2].config.pull_down_en = "GPIO_PULLDOWN_DISABLE"
    /\ calls[2].config.intr_type = "GPIO_INTR_DISABLE"

\* C27: an init() from the uninitialized state in which every HAL call
\* succeeds issues reset_pin(pin), config(...), set_level(pin, inverted ?
\* !initial_on : initial_on) in this order and nothing else; initialized is
\* set once config has succeeded and before the set_level call, which
\* apply_gpio would otherwise refuse.
C27_InitSequence ==
    (op = "init" /\ ~pre.initialized_)
        => /\ (\A i \in DOMAIN calls : calls[i].ret = ESP_OK)
                  => /\ Len(calls) = 3
                     /\ calls[1] = HalResetPin(ctor.gpio, ESP_OK)
                     /\ calls[2].fn = "config"
                     /\ calls[3] = HalSetLevel(ctor.gpio,
                                               IF ctor.inverted_logic
                                               THEN ~ctor.initial_on
                                               ELSE ctor.initial_on,
                                               ESP_OK)
           /\ pc.initialized_ = (Len(calls) >= 2 /\ calls[2].fn = "config" /\ calls[2].ret = ESP_OK)
           /\ pc.initialized_ = (Len(calls) = 3 /\ calls[3].fn = "set_level")

C27_Witness ==
    /\ op = "init"
    /\ ~pre.initialized_
    /\ ctor.gpio = 4
    /\ ~ctor.inverted_logic
    /\ ~ctor.initial_on
    /\ calls = <<HalResetPin(4, ESP_OK), calls[2], HalSetLevel(4, FALSE, ESP_OK)>>
    /\ ret = ESP_OK
    /\ ~pc.is_on_

\* deinit() of the revision the instance is built from
deinit_of_revision(self, r_level, r_reset) ==
    IF revision = "src"
    THEN deinit(self, r_level, r_reset)
    ELSE deinit_part_000(self, r_level, r_reset)

\* C28: after a deinit() that reported a hardware error the instance is not
\* stuck: a following deinit() returns ESP_OK with no HAL call, the output
\* operations return ESP_ERR_INVALID_STATE and a following init() performs the
\* full reset_pin/config/set_level sequence.
C28_NotStuckAfterFailedDeinit ==
    (op = "deinit" /\ pre.initialized_ /\ ret # ESP_OK)
        => \A r1 \in HalResults, r2 \in HalResults :
               /\ deinit_of_revision(pc, r1, r2) = Outcome(pc, ESP_OK, <<>>)
               /\ turn_on(pc, r1).ret = ESP_ERR_INVALID_STATE
               /\ turn_off(pc, r1).ret = ESP_ERR_INVALID_STATE
               /\ toggle(pc, r1).ret = ESP_ERR_INVALID_STATE
               /\ Len(init(pc, ESP_OK, ESP_OK, r1).calls) = 3

\* The most HAL calls an operation may issue
MaxHalCalls ==
    CASE op = "init" -> 3
      [] op = "deinit" -> 2
      [] op \in OutputOps \cup {"set_drive_capability"} -> 1
      [] OTHER -> 0

\* C29: every operation issues a bounded number of HAL calls and never
\* retries: init at most 3, stopping at the first failing reset_pin or
\* config; deinit at most 2; turn_on, turn_off, toggle and
\* set_drive_capability at most 1; a failing HAL call is not issued again
\* within the same operation.
C29_BoundedNoRetry ==
    /\ Len(calls) <= MaxHalCalls
    /\ \A i \in DOMAIN calls : \A j \in DOMAIN calls :
           (i < j /\ calls[i].ret # ESP_OK) => calls[j].fn # calls[i].fn
    /\ op = "init" =>
           \A i \in DOMAIN calls :
               (calls[i].fn \in {"reset_pin", "config"} /\ calls[i].ret # ESP_OK)
                   => i = Len(calls)

C29_Witness ==
    /\ op = "init"
    /\ ~pre.initialized_
    /\ Len(calls) = 2
    /\ calls[2].fn = "config"
    /\ calls[2].ret = ESP_FAIL
    /\ ret = ESP_FAIL

\* C30: in every reachable state an uninitialized instance is logically off.
C30_OffWhenUninitialized == ~pc.initialized_ => ~pc.is_on_

C30_Witness ==
    /\ op = "deinit"
    /\ pre.initialized_
    /\ pre.is_on_
    /\ ~pc.initialized_
    /\ ~pc.is_on_

\* The pin a HAL call names
PinOf(call) ==
    IF call.fn = "config"
    THEN CHOOSE pin \in Pins : 2 ^ pin = call.config.pin_bit_mask
    ELSE call.pin

\* A call on one instance leaves the other instance's members alone
OtherUntouched ==
    /\ target' = "pc" => peer' = peer
    /\ target' = "peer" => pc' = pc

\* The object the last method was called on, after the call
Target == IF target = "pc" THEN pc ELSE peer

\* The last call is what its method gives on the object it was called on and
\* the HAL results alone, and its HAL calls name that object's pin only
OwnStateOnly ==
    /\ \A i \in DOMAIN calls : PinOf(calls[i]) = Target.gpio_
    /\ op \in OutputOps =>
           \E r \in HalResults :
               Outcome(Target, ret, calls) =
                   (CASE op = "turn_on" -> turn_on(pre, r)
                      [] op = "turn_off" -> turn_off(pre, r)
                      [] op = "toggle" -> toggle(pre, r))
    /\ op = "init" =>
           \E r_reset \in HalResults, r_config \in HalResults, r_level \in HalResults :
               Outcome(Target, ret, calls) = init(pre, r_reset, r_config, r_level)
    /\ op = "deinit" =>
           \E r_level \in HalResults, r_reset \in HalResults :
               Outcome(Target, ret, calls) = deinit_of_revision(pre, r_level, r_reset)

\* C23: for two instances on different pins over the same HAL, an operation
\* on one instance never changes is_on or initialized of the other, and the
\* return value and HAL calls of each operation are those its method gives
\* on that instance's own state and the HAL results, naming its own pin only.
C23_InstancesIndependent == [][OtherUntouched]_vars /\ []OwnStateOnly

C23_Witness ==
    /\ target = "peer"
    /\ op = "deinit"
    /\ pre.initialized_
    /\ ~peer.initialized_
    /\ ~peer.is_on_
    /\ pc.initialized_
    /\ pc.is_on_
    /\ calls = <<HalSetLevel(peer.gpio_, FALSE, ESP_OK), HalResetPin(peer.gpio_, ESP_OK)>>

\* The level that stands for the logical state of pc
LevelOfState == IF pc.inverted_logic_ THEN ~pc.is_on_ ELSE pc.is_on_

\* C31: whenever the instance is initialized and a set_level call has
\* succeeded since the last init, the level the hardware accepted last equals
\* (inverted_logic ? !is_on() : is_on()).
C31_StateAgreesWithLevel ==
    (pc.initialized_ /\ written # <<>>) => written[1] = LevelOfState

\* C32: when init() returns ESP_OK after performing hardware initialization,
\* the instance is initialized and is_on() equals initial_on if the
\* initial-level set_level call succeeded and is false if it failed.
C32_InitialWriteOutcome ==
    (op = "init" /\ ~pre.initialized_ /\ ret = ESP_OK)
        => /\ pc.initialized_
           /\ Len(calls) = 3
           /\ calls[3].fn = "set_level"
           /\ calls[3].ret = ESP_OK => pc.is_on_ = ctor.initial_on
           /\ calls[3].ret # ESP_OK => ~pc.is_on_

C32_Witness ==
    /\ op = "init"
    /\ ~pre.initialized_
    /\ ret = ESP_OK
    /\ ctor.initial_on
    /\ Len(calls) = 3
    /\ calls[3].ret = ESP_FAIL
    /\ pc.initialized_
    /\ ~pc.is_on_

\* C33: an init() that fails at reset_pin or config leaves the instance
\* exactly as it was (initialized false, is_on false), and the next init()
\* starts again from reset_pin and, when reset_pin and config succeed,
\* returns ESP_OK with the instance initialized.
C33_FailedInitForgotten ==
    (op = "init" /\ (Failed("reset_pin") \/ Failed("config")))
        => /\ pc = pre
           /\ ~pc.initialized_
           /\ ~pc.is_on_
           /\ \A r \in HalResults :
                  LET again == init(pc, ESP_OK, ESP_OK, r)
                  IN  /\ Len(again.calls) = 3
                      /\ again.calls[1] = HalResetPin(ctor.gpio, ESP_OK)
                      /\ again.calls[2].fn = "config"
                      /\ again.calls[3].fn = "set_level"
                      /\ again.ret = ESP_OK
                      /\ again.self.initialized_
           /\ \A r \in HalResults \ {ESP_OK} :
                  init(pc, r, ESP_OK, ESP_OK).calls = <<HalResetPin(ctor.gpio, r)>>

C33_Witness ==
    /\ op = "init"
    /\ ctor.initial_on
    /\ Len(calls) = 2
    /\ calls[1].ret = ESP_OK
    /\ calls[2].fn = "config"
    /\ calls[2].ret = ESP_ERR_NO_MEM
    /\ pc = pre
    /\ ~pc.initialized_

\* C34: every turn_on(), turn_off() and toggle() on an initialized instance
\* issues exactly one set_level call with the level of the requested state,
\* also when the requested state is the current one.
C34_NoWriteSuppression ==
    (op \in OutputOps /\ pre.initialized_)
        => /\ Len(calls) = 1
           /\ calls[1].fn = "set_level"
           /\ calls[1].pin = ctor.gpio
           /\ calls[1].level = (IF ctor.inverted_logic THEN ~Desired ELSE Desired)

C34_Witness ==
    /\ op = "turn_on"
    /\ pre.initialized_
    /\ pre.is_on_
    /\ ~ctor.inverted_logic
    /\ calls = <<HalSetLevel(ctor.gpio, TRUE, ESP_OK)>>
    /\ pc.is_on_

\* C35: on an initialized instance, a successful toggle() followed by another
\* successful toggle() restores is_on() and writes the complementary level;
\* a toggle() whose set_level fails leaves is_on() unchanged, and the next
\* toggle() asks for the same level again.
C35_ToggleInvolution ==
    (op = "toggle" /\ pre.initialized_ /\ Len(calls) = 1)
        => \A r \in HalResults :
               LET next == toggle(pc, r)
               IN  /\ Len(next.calls) = 1
                   /\ calls[1].ret = ESP_OK
                          => /\ pc.is_on_ = ~pre.is_on_
                             /\ next.calls[1].level = ~calls[1].level
                             /\ r = ESP_OK => next.self.is_on_ = pre.is_on_
                   /\ calls[1].ret # ESP_OK
                          => /\ pc.is_on_ = pre.is_on_
                             /\ next.calls[1].level = calls[1].level
                             /\ r = ESP_OK => next.self.is_on_ = ~pre.is_on_

C35_Witness ==
    /\ op = "toggle"
    /\ pre.initialized_
    /\ pre.is_on_
    /\ ~pc.is_on_
    /\ calls = <<HalSetLevel(ctor.gpio, ctor.inverted_logic, ESP_OK)>>
    /\ toggle(pc, ESP_OK).self.is_on_

\* C36: every HAL call an instance issues (reset_pin, set_level,
\* set_drive_capability, and the pin mask of config) refers to the pin given
\* at construction.
C36_OwnPinOnly ==
    \A i \in DOMAIN calls :
        IF calls[i].fn = "config"
        THEN calls[i].config.pin_bit_mask = 2 ^ ctor.gpio
        ELSE calls[i].pin = ctor.gpio

C36_Witness ==
    /\ op = "set_drive_capability"
    /\ ctor.gpio = MaxPin
    /\ Len(calls) = 1
    /\ calls[1].fn = "set_drive_capability"
    /\ calls[1].pin = MaxPin

\* C37: while the instance is uninitialized only init() issues HAL calls;
\* hence every set_level call is issued either by init() after its config
\* call succeeded or by an operation on an initialized instance, the last
\* of them being the set_level of the deinit that ends the cycle.
C37_OnlyInitTouchesUninitialized ==
    /\ (~pre.initialized_ /\ op # "init") => calls = <<>>
    /\ \A i \in DOMAIN calls :
           calls[i].fn = "set_level"
               => \/ pre.initialized_
                  \/ /\ op = "init"
                     /\ i = 3
                     /\ calls[2].fn = "config"
                     /\ calls[2].ret = ESP_OK

====
